---- MODULE Spec2Model ----
(***************************************************************************)
(* A model of the value-object base class (002-typescript-value-object.ts) *)
(* and of the typed exception base (001-ts-base-exception.ts).             *)
(*                                                                         *)
(* JavaScript values are tagged records.  Texts are sequences of one-      *)
(* character strings, so that includes(), concatenation and the text forms *)
(* of numbers and structures are computed and not assumed.  Objects,       *)
(* arrays and Dates live in a heap and are held by reference, as in the    *)
(* language: two holders of one reference see each other's writes.         *)
(***************************************************************************)
EXTENDS Integers, Sequences, FiniteSets, TLC

VARIABLES
    heap,   \* the caller's objects: reference -> object, array or Date
    vo,     \* the value object the caller holds (None before the first)
    given,  \* the value the caller passed to the constructor that made vo
    shown,  \* the text the first toString() of vo returned (None before)
    exc,    \* the exception the caller holds (None before the first)
    serial, \* what the first toJSON() of exc returned (None before)
    ctor,   \* the constructor call in progress: its position and arguments
    ret     \* what the last operation returned or raised

vars == <<heap, vo, given, shown, exc, serial, ctor, ret>>

\* ---------------------------------------------------------------- bounds

\* The longest array the caller builds.
MaxLen == 2
\* How deep the emptiness rule is followed into nested arrays.
RuleDepth == 3

\* ---------------------------------------------------------------- values

Undefined == [t |-> "undefined"]
Null == [t |-> "null"]
Str(s) == [t |-> "string", s |-> s]
Num(n) == [t |-> "number", n |-> n]
Bool(b) == [t |-> "boolean", b |-> b]
Ref(r) == [t |-> "object", r |-> r]
None == [t |-> "none"]

\* typeof value
TypeOf(value) == IF value.t = "null" THEN "object" ELSE value.t

\* The texts the model uses.
EmptyText == <<>>
UndefinedText == <<"u", "n", "d", "e", "f", "i", "n", "e", "d">>
MailText == <<"a", "@", "b", ".", "c", "o", "m">>
PlainText == <<"a", "b", "c">>

\* The caller's three objects: const o = {}; const a = []; const d = new Date(0)
ObjRef == "o"
ArrRef == "a"
DateRef == "d"
Refs == {ObjRef, ArrRef, DateRef}

Obj(props) == [k |-> "object", props |-> props]
Arr(items) == [k |-> "array", items |-> items]
DateOf(valid) == [k |-> "date", valid |-> valid]

\* What the caller pushes on its array, the array itself included.
Items == {Num(1), Ref(ObjRef), Ref(ArrRef)}

\* ------------------------------------------------------------ predicates

isUndefined(value) ==
    \/ value = Undefined
    \/ value = Null
    \/ value = Str(UndefinedText)

InstanceOfDate(h, value) == value.t = "object" /\ h[value.r].k = "date"
InstanceOfObject(h, value) == value.t = "object"
ArrayIsArray(h, value) == value.t = "object" /\ h[value.r].k = "array"

\* Object.keys(value).length: a Date has no own enumerable keys, but is
\* never asked; an array's keys are its indices.
ObjectKeysLength(h, value) ==
    LET o == h[value.r]
    IN  CASE o.k = "object" -> Len(o.props)
          [] o.k = "array" -> Len(o.items)
          [] OTHER -> 0

\* isEmpty on heap h.  `stack` holds the arrays whose every() is running:
\* isEmpty is a pure function of (h, value), so reaching an array that is
\* already on the stack recurses for ever, which the runtime ends with a
\* RangeError (maximum call stack size exceeded).
\* The outcome is "true", "false" or "RangeError".
RECURSIVE isEmptyOn(_, _, _)
RECURSIVE every(_, _, _)
every(h, items, stack) ==
    IF items = <<>> THEN "true"
    ELSE LET first == isEmptyOn(h, Head(items), stack)
         IN  IF first = "true" THEN every(h, Tail(items), stack) ELSE first

isEmptyOn(h, value, stack) ==
    IF TypeOf(value) = "number" \/ TypeOf(value) = "boolean" THEN "false"
    ELSE IF isUndefined(value) THEN "true"
    ELSE IF InstanceOfDate(h, value) THEN "false"
    ELSE IF InstanceOfObject(h, value) /\ ObjectKeysLength(h, value) = 0 THEN "true"
    ELSE LET all == IF ~ArrayIsArray(h, value) THEN "false"
                    ELSE IF value.r \in stack THEN "RangeError"
                    ELSE every(h, h[value.r].items, stack \cup {value.r})
         IN  IF all = "RangeError" THEN "RangeError"
             ELSE IF all = "true" THEN "true"
             ELSE IF value = Str(EmptyText) THEN "true"
             ELSE "false"

\* isEmpty as its doc comment's example isEmpty([{}, {}]) // false has it:
\* without the look into an array's elements.
isEmptyShallow(value) ==
    IF TypeOf(value) = "number" \/ TypeOf(value) = "boolean" THEN "false"
    ELSE IF isUndefined(value) THEN "true"
    ELSE IF InstanceOfDate(heap, value) THEN "false"
    ELSE IF InstanceOfObject(heap, value) /\ ObjectKeysLength(heap, value) = 0 THEN "true"
    ELSE IF value = Str(EmptyText) THEN "true"
    ELSE "false"

isEmpty(value) == isEmptyOn(heap, value, {})

\* isPrimitive as it would be without its Date case.
isPrimitiveNoDate(value) ==
    \/ TypeOf(value) = "string"
    \/ TypeOf(value) = "boolean"
    \/ TypeOf(value) = "number"
    \/ value = Undefined
    \/ value = Null

isPrimitive(value) ==
    \/ TypeOf(value) = "string"
    \/ TypeOf(value) = "boolean"
    \/ TypeOf(value) = "number"
    \/ value = Undefined
    \/ value = Null
    \/ InstanceOfDate(heap, value)

\* ----------------------------------------------------------------- texts

Digit(d) ==
    CASE d = 0 -> "0" [] d = 1 -> "1" [] d = 2 -> "2" [] d = 3 -> "3"
      [] d = 4 -> "4" [] d = 5 -> "5" [] d = 6 -> "6" [] d = 7 -> "7"
      [] d = 8 -> "8" [] OTHER -> "9"

RECURSIVE Digits(_)
Digits(n) == IF n < 10 THEN <<Digit(n)>> ELSE Digits(n \div 10) \o <<Digit(n % 10)>>

\* Number.prototype.toString of an integer
NumberToString(n) == IF n < 0 THEN <<"-">> \o Digits(0 - n) ELSE Digits(n)

BooleanToString(b) == IF b THEN <<"t", "r", "u", "e">> ELSE <<"f", "a", "l", "s", "e">>

NullText == <<"n", "u", "l", "l">>

\* Date.prototype.toString of new Date(0) on a host in UTC, and of an
\* invalid Date.
DateToString(valid) ==
    IF valid
    THEN <<"T", "h", "u", " ", "J", "a", "n", " ", "0", "1", " ",
           "1", "9", "7", "0", " ", "0", "0", ":", "0", "0", ":", "0", "0", " ",
           "G", "M", "T", "+", "0", "0", "0", "0", " ",
           "(", "C", "o", "o", "r", "d", "i", "n", "a", "t", "e", "d", " ",
           "U", "n", "i", "v", "e", "r", "s", "a", "l", " ", "T", "i", "m", "e", ")">>
    ELSE <<"I", "n", "v", "a", "l", "i", "d", " ", "D", "a", "t", "e">>

\* Date.prototype.toISOString of new Date(0)
IsoText ==
    <<"1", "9", "7", "0", "-", "0", "1", "-", "0", "1", "T",
      "0", "0", ":", "0", "0", ":", "0", "0", ".", "0", "0", "0", "Z">>

\* JSON's quoting of a text: the quote and the backslash are escaped.
RECURSIVE Escape(_)
Escape(s) ==
    IF s = <<>> THEN <<>>
    ELSE (IF Head(s) = "\"" \/ Head(s) = "\\" THEN <<"\\", Head(s)>> ELSE <<Head(s)>>)
         \o Escape(Tail(s))

Quote(s) == <<"\"">> \o Escape(s) \o <<"\"">>

\* s.includes(c) for a one-character c
RECURSIVE Includes(_, _)
Includes(s, c) ==
    IF s = <<>> THEN FALSE ELSE Head(s) = c \/ Includes(Tail(s), c)

Text(s) == [kind |-> "text", text |-> s]
NoText == [kind |-> "undefined"]
Thrown(name) == [kind |-> "throw", name |-> name]

\* JSON.stringify(value) on heap h: a text, undefined (nothing to write), or
\* the TypeError of a circular structure.  `stack` holds the objects being
\* written.
RECURSIVE Stringify(_, _, _)
RECURSIVE StringifyItems(_, _, _)
RECURSIVE StringifyProps(_, _, _)

\* The elements of an array, joined by commas; undefined is written null.
StringifyItems(h, items, stack) ==
    IF items = <<>> THEN Text(<<>>)
    ELSE LET first == Stringify(h, Head(items), stack)
             rest == StringifyItems(h, Tail(items), stack)
             one == IF first.kind = "undefined" THEN NullText ELSE first.text
         IN  IF first.kind = "throw" THEN first
             ELSE IF rest.kind = "throw" THEN rest
             ELSE IF Tail(items) = <<>> THEN Text(one)
             ELSE Text(one \o <<",">> \o rest.text)

\* The members of an object, joined by commas; an undefined member is left out.
StringifyProps(h, props, stack) ==
    IF props = <<>> THEN Text(<<>>)
    ELSE LET first == Stringify(h, Head(props)[2], stack)
             rest == StringifyProps(h, Tail(props), stack)
         IN  IF first.kind = "throw" THEN first
             ELSE IF rest.kind = "throw" THEN rest
             ELSE IF first.kind = "undefined" THEN rest
             ELSE LET one == Quote(Head(props)[1]) \o <<":">> \o first.text
                  IN  IF rest.text = <<>> THEN Text(one)
                      ELSE Text(one \o <<",">> \o rest.text)

Stringify(h, value, stack) ==
    CASE value.t = "undefined" -> NoText
      [] value.t = "null" -> Text(NullText)
      [] value.t = "boolean" -> Text(BooleanToString(value.b))
      [] value.t = "number" -> Text(NumberToString(value.n))
      [] value.t = "string" -> Text(Quote(value.s))
      [] OTHER ->
          LET o == h[value.r]
          IN  IF o.k = "date"
              THEN (IF o.valid THEN Text(Quote(IsoText)) ELSE Text(NullText))
              ELSE IF value.r \in stack THEN Thrown("TypeError")
              ELSE IF o.k = "array"
              THEN LET in == StringifyItems(h, o.items, stack \cup {value.r})
                   IN  IF in.kind = "throw" THEN in
                       ELSE Text(<<"[">> \o in.text \o <<"]">>)
              ELSE LET in == StringifyProps(h, o.props, stack \cup {value.r})
                   IN  IF in.kind = "throw" THEN in
                       ELSE Text(<<"{">> \o in.text \o <<"}">>)

JSONstringify(value) == Stringify(heap, value, {})

\* -------------------------------------------------------- the exceptions

CodeText ==
    <<"g", "e", "n", "e", "r", "i", "c", "_", "a", "r", "g", "u", "m", "e",
      "n", "t", "_", "n", "o", "t", "_", "p", "r", "o", "v", "i", "d", "e",
      "d">>

\* The stack a new Error captures: a text the model does not look into.
StackText ==
    <<"E", "r", "r", "o", "r", " ", "a", "t", " ", "n", "e", "w">>

\* new Error(message): its own properties are stack and message
ErrorOf(name, message) ==
    [name |-> name, message |-> message, stack |-> StackText]

\* ExceptionBase's constructor: message, metadata and cause are kept as
\* given, and the stack is captured.
ExceptionBase(message, metadata, cause) ==
    [name |-> "ExceptionBase", message |-> message, metadata |-> metadata,
     cause |-> cause, stack |-> StackText]

\* class ArgumentNotProvidedException extends ExceptionBase, with its code
ArgumentNotProvidedException(message, metadata, cause) ==
    [name |-> "ArgumentNotProvidedException", code |-> CodeText]
        @@ ExceptionBase(message, metadata, cause)

MessageKey == <<"m", "e", "s", "s", "a", "g", "e">>
CodeKey == <<"c", "o", "d", "e">>
StackKey == <<"s", "t", "a", "c", "k">>
CauseKey == <<"c", "a", "u", "s", "e">>
MetadataKey == <<"m", "e", "t", "a", "d", "a", "t", "a">>

\* JSON.stringify(cause, Object.getOwnPropertyNames(cause)): the cause's
\* own properties, stack and message, as a JSON text.
CauseText(cause) ==
    <<"{">>
    \o StringifyProps(heap, << <<StackKey, Str(cause.stack)>>,
                               <<MessageKey, Str(cause.message)>> >>, {}).text
    \o <<"}">>

\* toJSON as it would be if it left the cause member out when there is no
\* cause.
toJSONOmittingCause(this) ==
    << <<MessageKey, Str(this.message)>>,
       <<CodeKey, Str(this.code)>>,
       <<StackKey, Str(this.stack)>> >>
    \o (IF isUndefined(this.cause) THEN <<>>
        ELSE << <<CauseKey, Str(CauseText(this.cause))>> >>)
    \o << <<MetadataKey, this.metadata>> >>

\* ExceptionBase.toJSON: the plain object it returns, as its members in
\* order, each a <<key, value>> pair.
toJSON(this) ==
    << <<MessageKey, Str(this.message)>>,
       <<CodeKey, Str(this.code)>>,
       <<StackKey, Str(this.stack)>>,
       <<CauseKey, IF isUndefined(this.cause) THEN Undefined
                   ELSE Str(CauseText(this.cause))>>,
       <<MetadataKey, this.metadata>> >>

\* ----------------------------------------------------- the value objects

\* The concrete classes: the documented Email, and a subclass whose
\* validate hook the implementer supplies (it accepts or raises).
Classes == {"Email", "AnyValue"}

ClassName(cls) ==
    IF cls = "Email" THEN <<"E", "m", "a", "i", "l">>
    ELSE <<"A", "n", "y", "V", "a", "l", "u", "e">>

InvalidEmailText ==
    <<"I", "n", "v", "a", "l", "i", "d", " ", "e", "m", "a", "i", "l", " ",
      "a", "d", "d", "r", "e", "s", "s">>

\* `Property of value object (${this.constructor.name}) cannot be empty`
EmptyMessage(cls) ==
    <<"P", "r", "o", "p", "e", "r", "t", "y", " ", "o", "f", " ", "v", "a",
      "l", "u", "e", " ", "o", "b", "j", "e", "c", "t", " ", "(">>
    \o ClassName(cls) \o
    <<")", " ", "c", "a", "n", "n", "o", "t", " ", "b", "e", " ", "e", "m",
      "p", "t", "y">>

\* The subclass's validate: TRUE when it returns, FALSE when it raises.
\* Email raises unless the text includes '@'; for the other subclass the
\* implementer's decision is the input `accepts`.
validate(cls, properties, accepts) ==
    IF cls = "Email" THEN Includes(properties.s, "@") ELSE accepts

\* The error a failing validate raises.
ValidateError(cls) ==
    IF cls = "Email" THEN ErrorOf("Error", InvalidEmailText)
    ELSE ErrorOf("Error", <<>>)

\* checkIfEmpty as it would be if it tested isUndefined where it tests isEmpty.
checkIfEmptyNullishOnly(cls, properties) ==
    IF isUndefined(properties)
    THEN ArgumentNotProvidedException(EmptyMessage(cls), Undefined, Undefined)
    ELSE None

\* checkIfEmpty: what it raises, or None when it returns.
checkIfEmpty(cls, properties) ==
    LET empty == isEmpty(properties)
    IN  IF empty = "RangeError" THEN ErrorOf("RangeError", <<>>)
        ELSE IF empty = "true"
        THEN ArgumentNotProvidedException(EmptyMessage(cls), Undefined, Undefined)
        ELSE None

\* The storage branch of the constructor: the instance's fields.
Stored(cls, properties) ==
    IF isPrimitive(properties)
    THEN [cls |-> cls, properties |-> [value |-> properties], isPrimitive |-> TRUE]
    ELSE [cls |-> cls, properties |-> properties, isPrimitive |-> FALSE]

\* getValue as it would be if it returned the carrier and not its value.
getValueCarrier(this) == this.properties

\* Email.getValue: this.properties.value
getValue(this) == this.properties.value

\* other instanceof Email
InstanceOfEmail(other) == other # Undefined /\ other.cls = "Email"

\* equals as it would be without the instanceof test: other.getValue() of
\* undefined raises a TypeError.
equalsUnguarded(this, other) ==
    IF other = Undefined THEN "TypeError"
    ELSE IF getValue(this) = getValue(other) THEN "true"
    ELSE "false"

\* Email.equals: other instanceof Email && this.getValue() === other.getValue().
\* The outcome is "true", "false" or "TypeError".
equals(this, other) ==
    IF ~InstanceOfEmail(other) THEN "false"
    ELSE IF getValue(this) = getValue(other) THEN "true"
    ELSE "false"

\* value.toString() of a wrapped primitive
ValueToString(value) ==
    CASE value.t = "string" -> Text(value.s)
      [] value.t = "number" -> Text(NumberToString(value.n))
      [] value.t = "boolean" -> Text(BooleanToString(value.b))
      [] value.t = "object" -> Text(DateToString(heap[value.r].valid))
      [] OTHER -> Thrown("TypeError")

\* `${name} [${inner}]`: undefined is written "undefined", a raise passes on
Template(cls, inner) ==
    IF inner.kind = "throw" THEN inner
    ELSE Text(ClassName(cls) \o <<" ", "[">>
              \o (IF inner.kind = "undefined" THEN UndefinedText ELSE inner.text)
              \o <<"]">>)

\* ValueObject.toString
toString(this) ==
    IF this.isPrimitive
    THEN Template(this.cls, ValueToString(this.properties.value))
    ELSE Template(this.cls, JSONstringify(this.properties))

\* ------------------------------------------------------------ the caller

\* The values a caller passes to isEmpty and to a constructor.
Inputs ==
    {Undefined, Null, Str(EmptyText), Str(UndefinedText), Str(MailText),
     Str(PlainText), Num(0), Bool(FALSE), Ref(ObjRef), Ref(ArrRef), Ref(DateRef)}

Idle == [pc |-> "idle"]

Init ==
    /\ heap = [r \in Refs |->
                 CASE r = ObjRef -> Obj(<<>>)
                   [] r = ArrRef -> Arr(<<>>)
                   [] OTHER -> DateOf(TRUE)]
    /\ vo = None
    /\ given = None
    /\ shown = None
    /\ exc = None
    /\ serial = None
    /\ ctor = Idle
    /\ ret = [op |-> "start"]

\* o.a = 1
SetKey ==
    /\ ctor = Idle
    /\ heap[ObjRef].props = <<>>
    /\ heap' = [heap EXCEPT ![ObjRef] = Obj(<< <<(<<"a">>), Num(1)>> >>)]
    /\ ret' = [op |-> "o.a = 1"]
    /\ UNCHANGED <<vo, given, shown, exc, serial, ctor>>

\* The key "value".
ValueKey == <<"v", "a", "l", "u", "e">>

\* o.value = 1
SetValueKey ==
    /\ ctor = Idle
    /\ heap[ObjRef].props = <<>>
    /\ heap' = [heap EXCEPT ![ObjRef] = Obj(<< <<ValueKey, Num(1)>> >>)]
    /\ ret' = [op |-> "o.value = 1"]
    /\ UNCHANGED <<vo, given, shown, exc, serial, ctor>>

\* delete o.a, delete o.value
DeleteKey ==
    /\ ctor = Idle
    /\ heap[ObjRef].props # <<>>
    /\ heap' = [heap EXCEPT ![ObjRef] = Obj(<<>>)]
    /\ ret' = [op |-> "delete o.a"]
    /\ UNCHANGED <<vo, given, shown, exc, serial, ctor>>

\* a.push(item)
Push(item) ==
    /\ ctor = Idle
    /\ Len(heap[ArrRef].items) < MaxLen
    /\ heap' = [heap EXCEPT ![ArrRef] = Arr(Append(heap[ArrRef].items, item))]
    /\ ret' = [op |-> "a.push"]
    /\ UNCHANGED <<vo, given, shown, exc, serial, ctor>>

\* a.length = 0
Clear ==
    /\ ctor = Idle
    /\ heap[ArrRef].items # <<>>
    /\ heap' = [heap EXCEPT ![ArrRef] = Arr(<<>>)]
    /\ ret' = [op |-> "a.length = 0"]
    /\ UNCHANGED <<vo, given, shown, exc, serial, ctor>>

\* d.setTime(NaN) and d.setTime(0)
SetTime(valid) ==
    /\ ctor = Idle
    /\ heap[DateRef].valid # valid
    /\ heap' = [heap EXCEPT ![DateRef] = DateOf(valid)]
    /\ ret' = [op |-> "d.setTime"]
    /\ UNCHANGED <<vo, given, shown, exc, serial, ctor>>

\* What the caller does to its own objects.
Mutate ==
    \/ SetKey
    \/ SetValueKey
    \/ DeleteKey
    \/ \E item \in Items : Push(item)
    \/ Clear
    \/ \E valid \in BOOLEAN : SetTime(valid)

\* isEmpty(value)
IsEmptyCall(value) ==
    /\ ctor = Idle
    /\ ret' = [op |-> "isEmpty", arg |-> value, out |-> isEmpty(value)]
    /\ UNCHANGED <<heap, vo, given, shown, exc, serial, ctor>>

\* new cls(properties): the constructor is entered.  `accepts` is what the
\* implementer's validate hook will decide; Email is a ValueObject<string>.
New(cls, properties, accepts) ==
    /\ ctor = Idle
    /\ cls = "Email" => (properties.t = "string" /\ accepts)
    /\ ctor' = [pc |-> "checkIfEmpty", cls |-> cls, properties |-> properties,
                accepts |-> accepts, log |-> <<>>, prior |-> vo]
    /\ ret' = [op |-> "call"]
    /\ UNCHANGED <<heap, vo, given, shown, exc, serial>>

\* The constructor's outcome, as the caller sees it when it returns or raises.
Outcome(log, error) ==
    [op |-> "new", cls |-> ctor.cls, arg |-> ctor.properties,
     accepts |-> ctor.accepts, log |-> log, error |-> error, prior |-> ctor.prior]

\* The first step as it would be if the constructor did not call validate.
CheckIfEmptyThenStore ==
    /\ ctor.pc = "checkIfEmpty"
    /\ LET error == checkIfEmpty(ctor.cls, ctor.properties)
           log == Append(ctor.log, "checkIfEmpty")
       IN  IF error = None
           THEN /\ ctor' = [ctor EXCEPT !.pc = "store", !.log = log]
                /\ UNCHANGED ret
           ELSE /\ ctor' = Idle
                /\ ret' = Outcome(log, error)
    /\ UNCHANGED <<heap, vo, given, shown, exc, serial>>

\* this.checkIfEmpty(properties)
CheckIfEmpty ==
    /\ ctor.pc = "checkIfEmpty"
    /\ LET error == checkIfEmpty(ctor.cls, ctor.properties)
           log == Append(ctor.log, "checkIfEmpty")
       IN  IF error = None
           THEN /\ ctor' = [ctor EXCEPT !.pc = "validate", !.log = log]
                /\ UNCHANGED ret
           ELSE /\ ctor' = Idle
                /\ ret' = Outcome(log, error)
    /\ UNCHANGED <<heap, vo, given, shown, exc, serial>>

\* this.validate(properties)
Validate ==
    /\ ctor.pc = "validate"
    /\ LET log == Append(ctor.log, "validate")
       IN  IF validate(ctor.cls, ctor.properties, ctor.accepts)
           THEN /\ ctor' = [ctor EXCEPT !.pc = "store", !.log = log]
                /\ UNCHANGED ret
           ELSE /\ ctor' = Idle
                /\ ret' = Outcome(log, ValidateError(ctor.cls))
    /\ UNCHANGED <<heap, vo, given, shown, exc, serial>>

\* The storage branch; the constructor returns and the caller keeps the
\* instance.
Store ==
    /\ ctor.pc = "store"
    /\ vo' = Stored(ctor.cls, ctor.properties)
    /\ given' = ctor.properties
    /\ shown' = None
    /\ ctor' = Idle
    /\ ret' = Outcome(Append(ctor.log, "store"), None)
    /\ UNCHANGED <<heap, exc, serial>>

\* vo.getValue(), of a primitive-wrapping subclass
GetValueCall ==
    /\ ctor = Idle
    /\ vo # None
    /\ vo.isPrimitive
    /\ ret' = [op |-> "getValue", out |-> getValue(vo)]
    /\ UNCHANGED <<heap, vo, given, shown, exc, serial, ctor>>

\* The arguments the caller passes to equals.
Others == {"undefined", "itself", "equal", "different", "unrelated"}

Other(who) ==
    CASE who = "undefined" -> Undefined
      [] who = "itself" -> vo
      [] who = "equal" -> Stored("Email", Str(MailText))
      [] who = "different" -> Stored("Email", Str(<<"@">>))
      [] OTHER -> Stored("AnyValue", Str(MailText))

\* vo.equals(other), of an Email
EqualsCall(who) ==
    /\ ctor = Idle
    /\ vo # None
    /\ vo.cls = "Email"
    /\ ret' = [op |-> "equals", other |-> who, out |-> equals(vo, Other(who))]
    /\ UNCHANGED <<heap, vo, given, shown, exc, serial, ctor>>

\* vo.toString(); the caller keeps the first text it was given
ToStringCall ==
    /\ ctor = Idle
    /\ vo # None
    /\ ret' = [op |-> "toString", out |-> toString(vo), first |-> shown]
    /\ shown' = IF shown = None THEN toString(vo) ELSE shown
    /\ UNCHANGED <<heap, vo, given, exc, serial, ctor>>

Next ==
    \/ Mutate
    \/ \E cls \in Classes, properties \in Inputs, accepts \in BOOLEAN :
          New(cls, properties, accepts)
    \/ CheckIfEmpty
    \/ Validate
    \/ Store
    \/ GetValueCall
    \/ \E who \in Others : EqualsCall(who)
    \/ ToStringCall

\* The value objects: construction, the reads, and the caller's own writes.
Spec == Init /\ [][Next]_vars

\* What a caller passes to an exception's constructor.
Messages == {EmptyMessage("Email"), PlainText}
Metadatas == {Undefined, Num(0), Ref(ObjRef)}
Causes == {Undefined, Null, ErrorOf("Error", PlainText)}

Returned(value) == [kind |-> "return", value |-> value]

\* new ArgumentNotProvidedException(message, metadata, cause)
NewException(message, metadata, cause) ==
    /\ ctor = Idle
    /\ exc' = ArgumentNotProvidedException(message, metadata, cause)
    /\ serial' = None
    /\ ret' = [op |-> "new exception"]
    /\ UNCHANGED <<heap, vo, given, shown, ctor>>

\* exc.toJSON(); the caller keeps the first result it was given
ToJSONCall ==
    /\ ctor = Idle
    /\ exc # None
    /\ ret' = [op |-> "toJSON", out |-> Returned(toJSON(exc)), first |-> serial]
    /\ serial' = IF serial = None THEN Returned(toJSON(exc)) ELSE serial
    /\ UNCHANGED <<heap, vo, given, shown, exc, ctor>>

NextExceptions ==
    \/ SetKey
    \/ DeleteKey
    \/ \E message \in Messages, metadata \in Metadatas, cause \in Causes :
          NewException(message, metadata, cause)
    \/ ToJSONCall

\* The exceptions: construction and serialization, with the caller's writes
\* to the object it may have passed as metadata.
SpecExceptions == Init /\ [][NextExceptions]_vars

NextPredicates ==
    \/ Mutate
    \/ \E value \in Inputs : IsEmptyCall(value)

\* The predicate helpers applied to the caller's values.
SpecPredicates == Init /\ [][NextPredicates]_vars

\* ------------------------------------------------------------ the claims

\* The inputs the emptiness rule lists as empty, read off the heap without
\* isEmpty: undefined, null, the text "undefined", the empty text, an object
\* with no own keys, an array with no elements or with empty objects only.
ListedEmpty(value) ==
    \/ value \in {Undefined, Null, Str(UndefinedText), Str(EmptyText)}
    \/ value = Ref(ObjRef) /\ heap[ObjRef].props = <<>>
    \/ /\ value = Ref(ArrRef)
       /\ \A i \in 1..Len(heap[ArrRef].items) :
             heap[ArrRef].items[i] = Ref(ObjRef) /\ heap[ObjRef].props = <<>>

Held ==
    IF vo.isPrimitive
    THEN (IF vo.properties.value.t = "object"
          THEN heap[vo.properties.value.r] ELSE vo.properties.value)
    ELSE heap[vo.properties.r]

\* C2: while the caller holds one value object, what it holds is the same
\* after every step, the caller's writes to its own objects included.
C2_PropertiesNeverChange ==
    [][(vo # None /\ vo' = vo) => Held' = Held]_vars

\* The value a value object wraps: the carrier's value, or the structure.
Wrapped == IF vo.isPrimitive THEN vo.properties.value ELSE vo.properties

\* C3: in every state the value a constructed value object wraps is not
\* empty per isEmpty.
C3_HeldValueNeverEmpty ==
    (ctor = Idle /\ vo # None) => isEmpty(Wrapped) = "false"

\* The constructor's steps, in order.
Steps == <<"checkIfEmpty", "validate", "store">>

IsPrefixOfSteps(log) == Len(log) <= Len(Steps) /\ log = SubSeq(Steps, 1, Len(log))

\* C4: a constructor call runs checkIfEmpty, validate, store, in that order
\* and each at most once: a call that returns has run all three (validate
\* exactly once) and the instance holds the input; a call with an empty
\* input ends at checkIfEmpty, validate not run; a call that raises has not
\* stored, and until the last step the caller holds what it held before.
C4_ConstructionOrder ==
    /\ ctor # Idle => (IsPrefixOfSteps(ctor.log) /\ vo = ctor.prior)
    /\ ret.op = "new" =>
        /\ IsPrefixOfSteps(ret.log)
        /\ ret.error = None => (ret.log = Steps /\ vo = Stored(ret.cls, ret.arg))
        /\ isEmpty(ret.arg) = "true" => ret.log = <<"checkIfEmpty">>
        /\ ret.error # None => (Len(ret.log) < Len(Steps) /\ vo = ret.prior)

\* C4's case: a constructor call has returned after its three steps.
C4_Witness ==
    /\ ret.op = "new"
    /\ ret.error = None
    /\ ret.log = Steps
    /\ vo = Stored("Email", Str(MailText))

\* The emptiness rule, stated apart from isEmpty and followed to `depth`
\* levels of nesting.
RECURSIVE RuleEmpty(_, _)
RuleEmpty(value, depth) ==
    CASE value.t = "number" \/ value.t = "boolean" -> FALSE
      [] value.t = "undefined" \/ value.t = "null" -> TRUE
      [] value.t = "string" -> value.s = UndefinedText \/ value.s = <<>>
      [] OTHER ->
          LET o == heap[value.r]
          IN  CASE o.k = "date" -> FALSE
                [] o.k = "object" -> o.props = <<>>
                [] OTHER ->
                    \/ o.items = <<>>
                    \/ /\ depth > 0
                       /\ \A i \in 1..Len(o.items) : RuleEmpty(o.items[i], depth - 1)

\* C5: isEmpty returns for every input (it never raises), and what it
\* returns is what the emptiness rule says of the input.
C5_IsEmptyTotalPerRule ==
    ret.op = "isEmpty" =>
        /\ ret.out \in {"true", "false"}
        /\ (ret.out = "true") = RuleEmpty(ret.arg, RuleDepth)

IsPairOfEmptyObjects ==
    /\ heap[ArrRef].items = <<Ref(ObjRef), Ref(ObjRef)>>
    /\ heap[ObjRef].props = <<>>

\* The doc comment's examples other than isEmpty([{}, {}]).
DocExamplesButThePair ==
    /\ ret.arg = Bool(FALSE) => ret.out = "false"
    /\ ret.arg = Str(EmptyText) => ret.out = "true"
    /\ ret.arg = Ref(DateRef) => ret.out = "false"
    /\ (ret.arg = Ref(ArrRef) /\ heap[ArrRef].items = <<>>) => ret.out = "true"
    /\ (ret.arg = Ref(ObjRef) /\ heap[ObjRef].props = <<>>) => ret.out = "true"
    /\ ret.arg = Undefined => ret.out = "true"

Has(members, key) == \E i \in 1..Len(members) : members[i][1] = key
Get(members, key) ==
    members[CHOOSE i \in 1..Len(members) : members[i][1] = key][2]

\* The JSON text of an Error's own properties, written out.
OwnPropertiesText(error) ==
    <<"{">> \o Quote(StackKey) \o <<":">> \o Quote(error.stack) \o <<",">>
    \o Quote(MessageKey) \o <<":">> \o Quote(error.message) \o <<"}">>

\* What C7 says of message, code and a supplied cause.
SerializedMessageCodeCause(out) ==
    /\ Has(out, MessageKey) /\ Get(out, MessageKey) = Str(exc.message)
    /\ Has(out, CodeKey) /\ Get(out, CodeKey) = Str(CodeText)
    /\ ~isUndefined(exc.cause) =>
          /\ Has(out, CauseKey)
          /\ Get(out, CauseKey) = Str(OwnPropertiesText(exc.cause))

C8_GetValueReturnsInput ==
    /\ (/\ ret.op = "new"
        /\ isPrimitive(ret.arg)
        /\ isEmpty(ret.arg) = "false"
        /\ validate(ret.cls, ret.arg, ret.accepts)) =>
           (ret.error = None /\ vo.isPrimitive /\ given = ret.arg)
    /\ ret.op = "getValue" => ret.out = given

\* C8's case: getValue() of new Email("a@b.com") has returned "a@b.com".
C8_Witness ==
    /\ ret.op = "getValue"
    /\ vo.cls = "Email"
    /\ given = Str(MailText)
    /\ ret.out = Str(MailText)

\* C9: for a constructed Email x, x.equals(x) returns true and
\* x.equals(undefined) returns false; neither raises.
C9_EqualsReflexive ==
    ret.op = "equals" =>
        /\ ret.other = "itself" => ret.out = "true"
        /\ ret.other = "undefined" => ret.out = "false"

\* C9's case: x.equals(undefined) has returned false for an Email x.
C9_Witness ==
    /\ ret.op = "equals"
    /\ vo.cls = "Email"
    /\ ret.other = "undefined"
    /\ ret.out = "false"

\* C10: every toString() of a value object after the first returns the text
\* the first returned, and every toJSON() of an exception after the first
\* returns what the first returned, whatever happened between the calls.
C10_SameOutputEachTime ==
    (ret.op = "toString" \/ ret.op = "toJSON") =>
        (ret.first # None => ret.out = ret.first)

\* The JSON text of the caller's object, written out: {} or {"<key>":1}.
ExpectedObjectText ==
    IF heap[ObjRef].props = <<>> THEN <<"{", "}">>
    ELSE <<"{", "\"">> \o heap[ObjRef].props[1][1] \o <<"\"", ":", "1", "}">>

\* The JSON texts of an array's elements (the number 1 or the caller's
\* object), with commas between them.
RECURSIVE ExpectedItemsText(_)
ExpectedItemsText(items) ==
    IF items = <<>> THEN <<>>
    ELSE (IF Head(items) = Num(1) THEN <<"1">> ELSE ExpectedObjectText)
         \o (IF Tail(items) = <<>> THEN <<>> ELSE <<",">>)
         \o ExpectedItemsText(Tail(items))

\* The caller's array contains itself.
Circular == \E i \in 1..Len(heap[ArrRef].items) : heap[ArrRef].items[i] = Ref(ArrRef)

\* The text expected between the brackets for the value the caller gave:
\* a primitive's own text form, or the JSON text of the structure as it is.
ExpectedValueText ==
    CASE given.t = "string" -> given.s
      [] given = Num(0) -> <<"0">>
      [] given = Bool(FALSE) -> <<"f", "a", "l", "s", "e">>
      [] given = Ref(DateRef) -> DateToString(heap[DateRef].valid)
      [] given = Ref(ObjRef) -> ExpectedObjectText
      [] OTHER -> <<"[">> \o ExpectedItemsText(heap[ArrRef].items) \o <<"]">>

ExpectedText == Text(ClassName(vo.cls) \o <<" ", "[">> \o ExpectedValueText \o <<"]">>)

\* C11, as claimed: toString() of a constructed value object returns
\* "<ConcreteTypeName> [<value>]", <value> being the wrapped primitive's own
\* text form, or the JSON text of the stored structure.
C11_ToStringFormat ==
    ret.op = "toString" => ret.out = ExpectedText

\* What toString() does: the text above whenever the stored structure has a
\* JSON text; when the structure contains itself, JSON.stringify's TypeError
\* and no text.
ToStringFormatUnlessCircular ==
    ret.op = "toString" =>
        IF given = Ref(ArrRef) /\ Circular
        THEN ret.out = Thrown("TypeError")
        ELSE ret.out = ExpectedText

\* properties is the constructor's carrier: one field, value.
IsCarrier(properties) == DOMAIN properties = {"value"}

\* properties is an object with the single key "value": the constructor's
\* carrier, or an object of the caller's that has that one key.
HasSingleFieldValue(properties) ==
    \/ IsCarrier(properties)
    \/ /\ "t" \in DOMAIN properties
       /\ properties.t = "object"
       /\ heap[properties.r].k = "object"
       /\ Len(heap[properties.r].props) = 1
       /\ heap[properties.r].props[1][1] = ValueKey

\* A text, number, boolean or Date, and so neither undefined nor null.
IsTextNumberBooleanOrDate(value) ==
    \/ value.t \in {"string", "number", "boolean"}
    \/ value.t = "object" /\ heap[value.r].k = "date"

\* An object or an array of the caller's: not a Date.
IsStructured(value) ==
    value.t = "object" /\ heap[value.r].k \in {"object", "array"}

\* The primitive branch of toString has not raised.
PrimitiveToStringReturns ==
    (ret.op = "toString" /\ vo.isPrimitive) => ret.out.kind = "text"

\* C12, as claimed: isPrimitive is true exactly when properties is a
\* single-field {value}; the carried value is then a text, number, boolean
\* or Date and the primitive branch of toString() does not raise; when the
\* flag is false, properties is the structured input itself.
C12_FlagIffSingleFieldValue ==
    vo # None =>
        /\ vo.isPrimitive <=> HasSingleFieldValue(vo.properties)
        /\ vo.isPrimitive =>
              /\ IsTextNumberBooleanOrDate(vo.properties.value)
              /\ PrimitiveToStringReturns
        /\ ~vo.isPrimitive => vo.properties = given

\* C12, amended: when isPrimitive is true, properties is the constructor's
\* carrier {value} of the input, a text, number, boolean or Date, and the
\* primitive branch of toString() does not raise; when it is false,
\* properties is the caller's object or array itself, which may have the
\* single key "value" too.
C12_FlagTellsCarrierFromInput ==
    vo # None =>
        IF vo.isPrimitive
        THEN /\ IsCarrier(vo.properties)
             /\ vo.properties.value = given
             /\ IsTextNumberBooleanOrDate(given)
             /\ PrimitiveToStringReturns
        ELSE /\ vo.properties = given
             /\ IsStructured(given)

\* C12's case: toString() of a value object that wraps a Date has returned.
C12_Witness ==
    /\ vo # None
    /\ vo.isPrimitive
    /\ given = Ref(DateRef)
    /\ ret.op = "toString"

====
